---- MODULE Spec2Model ----
(***************************************************************************)
(* dbxincluder: the XInclude resolver (xinclude.py) and the DocBook        *)
(* transclusion fixup (docbook.py) as one state machine.                   *)
(*                                                                         *)
(* Strings (text, tails, attribute values, ids, URLs) are sequences of     *)
(* tokens, so that Python's + is \o.  A URL is the sequence of its         *)
(* "/"-separated segments.  Python's None is the value None below, which   *)
(* is no string of any input.  An element is a record                      *)
(*   [tag, attrib, text, tail, kids]                                       *)
(* with tag and attribute names pairs <<namespace, localname>> (namespace  *)
(* "" for an unqualified name), attrib the ordered list of                 *)
(* [name, value] and kids the ordered children.  A node of a tree is       *)
(* addressed by its path, the sequence of child indices from the root.     *)
(***************************************************************************)
EXTENDS Integers, Sequences, FiniteSets, TLC

VARIABLES
    trees,      \* the detached trees in work: trees[1] is the document, trees[k+1] the subtree fetched by the k-th nested xml inclusion
    calls,      \* the Python call stack: one frame per active process_tree, process_subtree, handle_xinclude
    err,        \* "" or the exception that aborted processing
    stderr,     \* what was written to sys.stderr, one entry per write
    phase,      \* where docbook.process_tree is: "xinclude", "ids", "refs", "cleanup", "done", "failed"
    cursor,     \* position of the running tree.iter() loop of docbook.process_tree
    input,      \* what docbook.process_tree was called with: [tree, base_url]
    merged,     \* the tree as xinclude.process_tree left it (the input of the fixup passes)
    lookups,    \* the calls of find_target so far, in order: [path, attr, value, linkscope, found]
    last        \* what the last finished step of handle_xinclude did (its inputs and outputs)

vars == <<trees, calls, err, stderr, phase, cursor, input, merged, lookups, last>>

----------------------------------------------------------------------------
(* Python values *)

None == <<"None">>
TypeError == <<"TypeError">>

\* bool(s) of a str or None
Truthy(s) == s # None /\ s # <<>>

\* a + b of two values that are str or None
PyConcat(a, b) == IF a = None \/ b = None \/ a = TypeError \/ b = TypeError THEN TypeError ELSE a \o b

----------------------------------------------------------------------------
(* Names *)

XI_INCLUDE == <<"xi", "include">>
XI_FALLBACK == <<"xi", "fallback">>
XML_ID == <<"xml", "id">>
XML_BASE == <<"xml", "base">>
DBXI_NEWID == <<"dbxi", "newid">>
TRANS_IDFIXUP == <<"trans", "idfixup">>
TRANS_LINKSCOPE == <<"trans", "linkscope">>
TRANS_SUFFIX == <<"trans", "suffix">>

\* isinstance(elem.tag, str): comments and processing instructions have no tag
COMMENT == <<"", "#comment">>
IsElement(n) == n.tag # COMMENT

----------------------------------------------------------------------------
(* The tree abstraction (lxml.etree) *)

Elem(tag, attrib, text, tail, kids) ==
    [tag |-> tag, attrib |-> attrib, text |-> text, tail |-> tail, kids |-> kids]

Attr(name, value) == [name |-> name, value |-> value]

\* name in elem.attrib
Has(n, name) == \E k \in 1..Len(n.attrib) : n.attrib[k].name = name

\* elem.get(name, default)
GetOr(n, name, default) ==
    IF Has(n, name)
    THEN n.attrib[CHOOSE k \in 1..Len(n.attrib) : n.attrib[k].name = name].value
    ELSE default

\* elem.get(name)
Get(n, name) == GetOr(n, name, None)

\* elem.set(name, value): an existing attribute keeps its place, a new one goes last
Set(n, name, value) ==
    IF Has(n, name)
    THEN [n EXCEPT !.attrib = [k \in 1..Len(n.attrib) |->
             IF n.attrib[k].name = name THEN Attr(name, value) ELSE n.attrib[k]]]
    ELSE [n EXCEPT !.attrib = Append(n.attrib, Attr(name, value))]

\* del elem.attrib[name]
Del(n, name) == [n EXCEPT !.attrib = SelectSeq(n.attrib, LAMBDA a : a.name # name)]

RECURSIVE NodeAt(_, _)
NodeAt(t, p) == IF p = <<>> THEN t ELSE NodeAt(t.kids[Head(p)], Tail(p))

RECURSIVE PutAt(_, _, _)
\* the tree t with the node at path p replaced by n
PutAt(t, p, n) ==
    IF p = <<>> THEN n
    ELSE [t EXCEPT !.kids[Head(p)] = PutAt(t.kids[Head(p)], Tail(p), n)]

Front(s) == SubSeq(s, 1, Len(s) - 1)
Last(s) == s[Len(s)]

RECURSIVE Flat(_)
\* concatenation of a sequence of sequences
Flat(ss) == IF ss = <<>> THEN <<>> ELSE Head(ss) \o Flat(Tail(ss))

RECURSIVE Iter(_, _)
\* tree.iter(): the paths of the node at p and of its descendants, in document order
Iter(t, p) ==
    <<p>> \o Flat([k \in 1..Len(NodeAt(t, p).kids) |-> Iter(t, Append(p, k))])

\* the paths of p's ancestors-or-self, nearest first
AncestorsOrSelf(p) == [k \in 1..(Len(p) + 1) |-> SubSeq(p, 1, Len(p) + 1 - k)]

\* elem.xpath("ancestor-or-self::*[@name][1]/@name"): the list holding the value of
\* the nearest ancestor-or-self carrying the attribute, or the empty list
NearestAttr(t, p, name) ==
    LET anc == AncestorsOrSelf(p)
        hits == SelectSeq(anc, LAMBDA q : Has(NodeAt(t, q), name))
    IN  IF hits = <<>> THEN <<>> ELSE <<Get(NodeAt(t, hits[1]), name)>>

\* elem.xpath("./*[@xml:id='value']"): the element children of the node at p with that id
ChildrenWithId(t, p, value) ==
    SelectSeq([k \in 1..Len(NodeAt(t, p).kids) |-> Append(p, k)],
              LAMBDA q : IsElement(NodeAt(t, q)) /\ Get(NodeAt(t, q), XML_ID) = value)

\* elem.xpath("//*[@xml:id='value']"): the elements of the whole document with that id
AllWithId(t, value) ==
    SelectSeq(Iter(t, <<>>),
              LAMBDA q : IsElement(NodeAt(t, q)) /\ Get(NodeAt(t, q), XML_ID) = value)

----------------------------------------------------------------------------
(* xinclude.py: helpers *)

\* append_to_text / append_to_tail: the new value of the field cur after appending
\* string, or TypeError (str += None)
AppendTo(cur, string) == IF Truthy(cur) THEN PyConcat(cur, string) ELSE string

RECURSIVE CopyFrom(_, _)
\* the loop of copy_attributes over the items of the xi:include
CopyFrom(items, subtree) ==
    IF items = <<>> THEN subtree
    ELSE LET name == Head(items).name
             value == Head(items).value
             next == IF name = <<"", "set-xml-id">>
                     THEN IF Truthy(value) THEN Set(subtree, XML_ID, value)
                          ELSE IF Truthy(Get(subtree, XML_ID)) THEN Del(subtree, XML_ID)
                          ELSE subtree
                     ELSE IF name[1] = "local" THEN Set(subtree, <<"", name[2]>>, value)
                     ELSE IF name[1] = "xml" THEN subtree
                     ELSE IF name[1] # "" THEN Set(subtree, name, value)
                     ELSE subtree
         IN  CopyFrom(Tail(items), next)

RECURSIVE CopyQualifiedFrom(_, _)
\* a copy that keeps the namespace of the attributes of the local namespace
CopyQualifiedFrom(items, subtree) ==
    IF items = <<>> THEN subtree
    ELSE LET name == Head(items).name
             value == Head(items).value
             next == IF name = <<"", "set-xml-id">>
                     THEN IF Truthy(value) THEN Set(subtree, XML_ID, value)
                          ELSE IF Truthy(Get(subtree, XML_ID)) THEN Del(subtree, XML_ID)
                          ELSE subtree
                     ELSE IF name[1] = "xml" THEN subtree
                     ELSE IF name[1] # "" THEN Set(subtree, name, value)
                     ELSE subtree
         IN  CopyQualifiedFrom(Tail(items), next)

copy_qualified(elem, subtree) == CopyQualifiedFrom(elem.attrib, subtree)

copy_attributes(elem, subtree) == CopyFrom(elem.attrib, subtree)

(* The resource loader.  The files that exist, by name; each has its bytes
   (as the text that decoding them gives) and, when they are well-formed XML,
   the tree that parsing them gives. *)
NotXml == Elem(COMMENT, <<>>, None, None, <<>>)
NoFile == [exists |-> FALSE, bytes |-> None, xml |-> NotXml]
File(bytes, xml) == [exists |-> TRUE, bytes |-> bytes, xml |-> xml]

\* "/".join(base_url.split("/")[:-1]) + "/" + href
JoinUrl(base_url, href) ==
    (IF Len(base_url) <= 1 THEN <<"">> ELSE Front(base_url)) \o href

\* "://" in base_url
HasScheme(base_url) ==
    \E k \in 1..(Len(base_url) - 1) : base_url[k] \in {"http:", "file:"} /\ base_url[k + 1] = ""

\* validate_xinclude: the message of the DBXIException it raises, or ""
validate_xinclude(elem) ==
    LET valid_attributes == {"href", "fragid", "parse", "set-xml-id"}
        parse == GetOr(elem, <<"", "parse">>, <<"xml">>)
        fragid == Get(elem, <<"", "fragid">>)
    IN  IF \E k \in 1..Len(elem.attrib) :
              elem.attrib[k].name[1] = "" /\ elem.attrib[k].name[2] \notin valid_attributes
        THEN "DBXIException: Invalid attribute"
        ELSE IF parse \notin {<<"xml">>, <<"text">>}
        THEN "DBXIException: Invalid value for parse"
        ELSE IF parse # <<"xml">> /\ fragid # None
        THEN "DBXIException: fragid invalid, parse != 'xml'"
        ELSE IF Len(elem.kids) # 0 /\ (Len(elem.kids) > 1 \/ elem.kids[1].tag # XI_FALLBACK)
        THEN "DBXIException: Only one xi:fallback can be a child of xi:include"
        ELSE ""

\* the test of handle_xifallback: whether elem has an xi:fallback to use
HasFallback(elem) ==
    ~(Len(elem.kids) = 0 \/ ~IsElement(elem) \/ elem.kids[1].tag # XI_FALLBACK)

----------------------------------------------------------------------------
(* flatten_subtree *)

FlatResult(tree, error) == [tree |-> tree, err |-> error]

\* tree.insert(tree.index(elem), subelem) for each child of the fallback at index i,
\* then tree.remove(elem): the children take the fallback's place, in order
InlineAt(tree, i, elem) ==
    [tree EXCEPT !.kids = SubSeq(@, 1, i - 1) \o elem.kids \o SubSeq(@, i + 1, Len(@))]

RECURSIVE FlattenLoop(_, _)
\* the while loop of flatten_subtree from index i (1-based) on
FlattenLoop(tree, i) ==
    IF ~(i <= Len(tree.kids)) THEN FlatResult(tree, "")
    ELSE LET elem == tree.kids[i] IN
         IF ~IsElement(elem) THEN FlattenLoop(tree, i + 1)
         ELSE IF elem.tag = XI_FALLBACK
         THEN LET n == Len(elem.kids)
                  \* Copy tail
                  lastTail == IF n > 0 THEN AppendTo(elem.kids[n].tail, elem.tail) ELSE None
                  e1 == IF n > 0
                        THEN [elem EXCEPT !.kids[n].tail = lastTail]
                        ELSE [elem EXCEPT !.text = AppendTo(elem.text, elem.tail)]
                  failed1 == IF n > 0 THEN lastTail = TypeError ELSE e1.text = TypeError
                  \* Copy text
                  prevTail == IF i > 1 THEN AppendTo(tree.kids[i - 1].tail, e1.text) ELSE None
                  t2 == IF i > 1
                        THEN [tree EXCEPT !.kids[i - 1].tail = prevTail]
                        ELSE [tree EXCEPT !.text = AppendTo(tree.text, e1.text)]
                  failed2 == IF i > 1 THEN prevTail = TypeError ELSE t2.text = TypeError
              IN  IF failed1 \/ failed2 THEN FlatResult(tree, "TypeError")
                  ELSE FlattenLoop(InlineAt(t2, i, e1), i)
         ELSE LET sub == FlattenLoop(elem, 1) IN
              IF sub.err # "" THEN FlatResult(tree, sub.err)
              ELSE FlattenLoop([tree EXCEPT !.kids[i] = sub.tree], i + 1)

flatten_subtree(tree) == FlattenLoop(tree, 1)

----------------------------------------------------------------------------
(* The documents: the files the resource loader can reach, and the inputs *)

\* how many documents the inclusion cycle "1" -> "2" -> ... -> "1" has
MaxChain == 2
\* how many sibling xi:include of the same document "two.xml" holds
NSiblings == 2

A(local, value) == Attr(<<"", local>>, value)
Db(local, attrib, text, tail, kids) == Elem(<<"db", local>>, attrib, text, tail, kids)
Include(attrib, tail, kids) == Elem(XI_INCLUDE, attrib, None, tail, kids)
Fallback(text, tail, kids) == Elem(XI_FALLBACK, <<>>, text, tail, kids)
IncludeOf(href) == Include(<<A("href", <<href>>)>>, None, <<>>)

Leaf == Db("sect", <<Attr(XML_ID, <<"s">>)>>, <<"L">>, None, <<>>)

ChainNames == {ToString(k) : k \in 1..MaxChain}

Files ==
    [name \in ChainNames |->
        LET k == CHOOSE j \in 1..MaxChain : ToString(j) = name
        IN  File(<<"<chain>">>,
                 Db("chain", <<>>, None, None, <<IncludeOf(ToString((k % MaxChain) + 1))>>))]
    @@ [name \in {"leaf.xml"} |-> File(<<"<leaf>">>, Leaf)]
    @@ [name \in {"self.xml"} |->
            File(<<"<self>">>, Db("self", <<>>, None, None, <<IncludeOf("self.xml")>>))]
    @@ [name \in {"two.xml"} |->
            File(<<"<two>">>,
                 Db("two", <<>>, None, None, [k \in 1..NSiblings |-> IncludeOf("leaf.xml")]))]
    @@ [name \in {"fb.xml"} |->
            File(<<"<fb>">>,
                 Db("fb", <<>>, None, None,
                    <<Include(<<A("href", <<"missing.xml">>)>>, None,
                              <<Fallback(None, None, <<IncludeOf("leaf.xml")>>)>>),
                      IncludeOf("leaf.xml")>>))]
    @@ [name \in {"fbcyc.xml"} |->
            File(<<"<fbcyc>">>,
                 Db("fbcyc", <<>>, None, None,
                    <<Include(<<A("href", <<"missing.xml">>)>>, None,
                              <<Fallback(None, None, <<IncludeOf("fbcyc.xml")>>)>>)>>))]
    @@ [name \in {"frag.xml"} |->
            File(<<"<frag>">>,
                 Db("frag", <<Attr(XML_BASE, <<"d", "part.xml">>)>>, None, None,
                    <<Db("part", <<Attr(XML_ID, <<"p">>), Attr(<<"xml", "lang">>, <<"en">>)>>,
                         None, <<"x">>, <<IncludeOf("leaf.xml")>>),
                      Db("part", <<Attr(XML_ID, <<>>)>>, None, None, <<IncludeOf("frag.xml")>>),
                      Db("dup", <<Attr(XML_ID, <<"dup">>)>>, None, None, <<>>),
                      Db("dup", <<Attr(XML_ID, <<"dup">>)>>, None, None, <<>>)>>))]
    @@ [name \in {"s.txt"} |-> File(<<"S">>, NotXml)]

\* the directories whose files exist: the working directory's d/ and the host h
Dirs == {<<"d">>, <<"http:", "", "h">>}

\* the href values of the inputs
Hrefs == DOMAIN Files \cup {"missing.xml", "main.xml"}

\* the base_url docbook.process_tree is given: a path, a URL with a scheme, or None
BaseD == <<"d", "main.xml">>
BaseH == <<"http:", "", "h", "main.xml">>

Tails == {None, <<"u">>}
Next1 == Db("next", <<>>, None, None, <<>>)
Input(tree, base_url) == [tree |-> tree, base_url |-> base_url]

\* one xi:include of each href, under each kind of base
PlainInputs ==
    {Input(Db("doc", <<>>, <<"t">>, None, <<Include(<<A("href", <<h>>)>>, tail, <<>>), Next1>>), b) :
        h \in Hrefs, tail \in Tails, b \in {BaseD, BaseH, None}}

\* the attributes an xi:include carries besides href
Fragids == {<<>>} \cup {<<A("fragid", v)>> : v \in {<<"p">>, <<"s">>, <<>>, <<"dup">>}}
SetXmlIds == {<<>>} \cup {<<A("set-xml-id", v)>> : v \in {<<"n">>, <<>>}}
Others == {<<>>,
           <<Attr(<<"local", "role">>, <<"r">>), Attr(<<"my", "x">>, <<"1">>),
             Attr(<<"xml", "lang">>, <<"de">>), Attr(TRANS_IDFIXUP, <<"suffix">>),
             Attr(TRANS_SUFFIX, <<"-i">>)>>,
           <<Attr(XML_ID, <<"own">>), Attr(<<"local", "href">>, <<"k">>),
             Attr(XML_BASE, <<"d", "other.xml">>)>>}
AttrInputs ==
    {Input(Db("doc", <<>>, <<"t">>, None,
              <<Include(<<A("href", <<h>>)>> \o f \o x \o o, <<"u">>, <<>>), Next1>>), BaseD) :
        h \in {"leaf.xml", "frag.xml"}, f \in Fragids, x \in SetXmlIds, o \in Others}

\* what precedes the xi:include in its parent: nothing, or an element with or without a tail
Befores == {<<>>, <<Db("prev", <<>>, None, None, <<>>)>>, <<Db("prev", <<>>, None, <<"q">>, <<>>)>>}

TextInputs ==
    {Input(Db("doc", <<>>, text, None,
              before \o <<Include(<<A("href", <<h>>), A("parse", <<"text">>)>>, tail, <<>>), Next1>>),
           BaseD) :
        h \in {"s.txt", "leaf.xml", "missing.xml"}, text \in {None, <<"before ">>},
        before \in Befores, tail \in {None, <<" after">>}}

\* the children of an xi:fallback
FallbackKids ==
    {<<>>,
     <<Db("em", <<>>, None, None, <<>>)>>,
     <<Db("em", <<>>, None, <<"e">>, <<>>)>>,
     <<IncludeOf("leaf.xml")>>,
     <<IncludeOf("missing.xml")>>,
     <<Include(<<A("href", <<"missing.xml">>)>>, None, <<Fallback(<<"in">>, None, <<>>)>>)>>}

FallbackInputs ==
    {Input(Db("doc", <<>>, <<"t">>, None,
              before \o <<Include(<<A("href", <<h>>)>>, tail, <<Fallback(text, ftail, kids)>>),
                          Next1>>),
           BaseD) :
        h \in {"missing.xml", "leaf.xml"}, before \in Befores, tail \in Tails,
        text \in {None, <<"N/A">>}, ftail \in {None, <<"w">>}, kids \in FallbackKids}

\* what an xi:fallback that stands in a document holds: nothing, elements with and
\* without tails, other xi:fallback elements with content of their own
FlattenKids ==
    {<<>>,
     <<Db("em", <<>>, None, None, <<>>)>>,
     <<Db("em", <<>>, <<"m">>, <<"e">>, <<>>)>>,
     <<Db("x", <<>>, None, <<"a">>, <<>>),
       Fallback(<<"in">>, <<"it">>, <<Db("y", <<>>, None, <<"b">>, <<>>)>>),
       Db("z", <<>>, None, None, <<>>)>>,
     <<Fallback(None, <<"ot">>, <<Fallback(<<"deep">>, <<"dt">>, <<>>)>>)>>,
     <<Db("sec", <<>>, <<"s">>, <<"v">>, <<Fallback(<<"f">>, <<"ft">>, <<>>)>>)>>}

\* documents with an xi:fallback outside of any xi:include
FlattenInputs ==
    {Input(Db("doc", <<>>, roottext, None,
              before \o <<Fallback(text, tail, kids)>> \o after),
           BaseD) :
        roottext \in {None, <<"t">>}, before \in Befores, text \in {None, <<"N/A">>},
        tail \in {None, <<"w">>}, kids \in FlattenKids, after \in {<<>>, <<Next1>>}}

\* xi:include elements that are not valid, and a document with a comment
InvalidInputs ==
    {Input(Db("doc", <<>>, <<"t">>, None, <<inc, Next1>>), BaseD) :
        inc \in {Include(<<A("href", <<"leaf.xml">>), A("xpointer", <<"x">>)>>, None, <<>>),
                 Include(<<A("href", <<"leaf.xml">>), A("bogus", <<"x">>)>>, None, <<>>),
                 Include(<<A("href", <<"leaf.xml">>), A("parse", <<"html">>)>>, None, <<>>),
                 Include(<<A("href", <<"s.txt">>), A("parse", <<"text">>),
                           A("fragid", <<"p">>)>>, None, <<>>),
                 Include(<<A("href", <<"leaf.xml">>)>>, None,
                         <<Fallback(None, None, <<>>), Fallback(None, None, <<>>)>>),
                 Include(<<A("href", <<"leaf.xml">>)>>, None, <<Next1>>),
                 Include(<<>>, None, <<>>),
                 Elem(COMMENT, <<>>, <<"c">>, None, <<>>)}}

\* trans:idfixup and trans:suffix on an element
Fixups == {<<>>} \cup {<<Attr(TRANS_IDFIXUP, <<v>>)>> : v \in {"none", "suffix", "auto", "bogus"}}
Suffixes(vs) == {<<>>} \cup {<<Attr(TRANS_SUFFIX, v)>> : v \in vs}
Ids(v) == <<Attr(XML_ID, v)>>

\* a > b > c with ids, idfixup and suffix on a and on b, and c with or without a marker
IdInputs ==
    {Input(Db("a", Ids(<<"a">>) \o af \o as, None, None,
              <<Db("b", Ids(<<"b">>) \o bf \o bs, None, None,
                   <<Db("c", Ids(cid) \o cm, None, None, <<>>)>>)>>), BaseD) :
        af \in Fixups, as \in Suffixes({<<"-a">>, <<>>}),
        bf \in Fixups \ {<<Attr(TRANS_IDFIXUP, <<"bogus">>)>>}, bs \in Suffixes({<<"-b">>}),
        cid \in {<<"c">>, <<>>},
        cm \in {<<>>} \cup {<<Attr(DBXI_NEWID, v)>> : v \in {<<>>, <<"m">>}}}

Linkscopes ==
    {<<>>} \cup {<<Attr(TRANS_LINKSCOPE, <<v>>)>> : v \in {"near", "local", "global", "user", "bogus"}}

\* the referring element c
Referrers ==
    {Db("link", <<A("linkend", <<"t">>)>>, None, None, <<>>),
     Db("link", <<A("linkend", <<"zz">>)>>, None, None, <<>>),
     Db("link", <<A("endterm", <<"t">>), A("role", <<"r">>), A("linkend", <<"zz">>)>>, None, None, <<>>),
     Db("area", <<A("zone", <<"t">>)>>, None, None, <<>>),
     Elem(<<"my", "link">>, <<A("linkend", <<"zz">>)>>, None, None, <<>>)}

Target == Db("t", Ids(<<"t">>), None, None, <<>>)

\* a > b > c, c referring to t; t is a child of a, a child of b, a child of a's other
\* child d, or nowhere; a itself may refer to t
RefInputs ==
    {Input(Db("a", af \o aref, None, None,
              <<Db("b", bf \o ls, None, None, <<c>> \o (IF where = "b" THEN <<Target>> ELSE <<>>)),
                Db("d", <<>>, None, None, IF where = "d" THEN <<Target>> ELSE <<>>)>>
              \o (IF where = "a" THEN <<Target>> ELSE <<>>)), BaseD) :
        af \in {<<>>, <<Attr(TRANS_IDFIXUP, <<"suffix">>), Attr(TRANS_SUFFIX, <<"-a">>)>>},
        aref \in {<<>>, <<A("linkend", <<"t">>)>>},
        bf \in {<<>>, <<Attr(TRANS_IDFIXUP, <<"none">>)>>,
                <<Attr(TRANS_IDFIXUP, <<"suffix">>), Attr(TRANS_SUFFIX, <<"-b">>)>>},
        ls \in Linkscopes, c \in Referrers, where \in {"a", "b", "d", "nowhere"}}

Inputs == PlainInputs \cup AttrInputs \cup TextInputs \cup FallbackInputs \cup InvalidInputs
          \cup IdInputs \cup RefInputs \cup FlattenInputs

----------------------------------------------------------------------------
(* The call stack of xinclude.process_tree *)

\* the parameter xinclude_stack: None, or the list of the ids of the inclusions in work
NoStack == [isNone |-> TRUE, ids |-> <<>>]
Stack(ids) == [isNone |-> FALSE, ids |-> ids]

\* "{0!r}>{1!r}".format(url, fragid): one-to-one in the pair, which stands for it
XIncludeId(url, fragid) == <<url, fragid>>
NoId == <<None, None>>

\* a frame: the function, where it stands (pc), its tree trees[d] and the path of its
\* element in it, its parameters base_url and xinclude_stack, and its locals
Frame(fn, pc, d, path, base_url, xinclude_stack) ==
    [fn |-> fn, pc |-> pc, d |-> d, path |-> path, base_url |-> base_url,
     xinclude_stack |-> xinclude_stack,
     i |-> 1,                 \* process_subtree: the child the iterator yields next
     url |-> None,            \* handle_xinclude: the URL get_target returned
     content |-> NoFile,      \* handle_xinclude: the content get_target returned
     saved_tail |-> None,     \* handle_xinclude: saved_tail
     xinclude_id |-> NoId]    \* handle_xinclude: xinclude_id

Top == calls[Len(calls)]
Pop == Front(calls)
\* the top frame replaced by f
Goto(f) == [calls EXCEPT ![Len(calls)] = f]
TopTree == trees[Top.d]
TopElem == NodeAt(TopTree, Top.path)

Running == phase = "xinclude" /\ err = "" /\ Len(calls) > 0
At(fn, pc) == Running /\ Top.fn = fn /\ Top.pc = pc

\* an exception nothing catches: processing stops where it stands
Raise(e) ==
    /\ err' = e
    /\ phase' = "failed"
    /\ UNCHANGED <<trees, calls, stderr, cursor, input, merged, lookups, last>>

\* a finished step of handle_xinclude: the xi:include, its parent (or, for "copy", the
\* fetched subtree) before and after, the xi:include's index in its parent, the URL or
\* the text it brought, and how many lines sys.stderr held before
Event(op, elem, before, after, idx, data) ==
    [op |-> op, elem |-> elem, before |-> before, after |-> after, idx |-> idx, data |-> data,
     writes |-> Len(stderr)]
NoEvent == Event("none", NotXml, NotXml, NotXml, 0, None)

----------------------------------------------------------------------------
(* process_tree, process_subtree *)

\* process_tree up to its call of process_subtree
ProcessTree ==
    /\ At("process_tree", "start")
    /\ LET f == Top
           tree == TopElem
           based == IF Truthy(f.base_url) /\ ~Truthy(Get(tree, XML_BASE))
                    THEN Set(tree, XML_BASE, f.base_url) ELSE tree
       IN  /\ trees' = [trees EXCEPT ![f.d] = PutAt(@, f.path, based)]
           /\ calls' = Append(Goto([f EXCEPT !.pc = "flatten"]),
                              Frame("process_subtree", "loop", f.d, f.path, f.base_url,
                                    f.xinclude_stack))
    /\ UNCHANGED <<err, stderr, phase, cursor, input, merged, lookups, last>>

\* process_tree after process_subtree returned: flatten_subtree(tree), return
ProcessTreeFlatten ==
    /\ At("process_tree", "flatten")
    /\ LET f == Top
           r == flatten_subtree(TopElem)
       IN  IF r.err # "" THEN Raise(r.err)
           ELSE /\ trees' = [trees EXCEPT ![f.d] = PutAt(@, f.path, r.tree)]
                /\ calls' = Pop
                /\ UNCHANGED <<err, stderr, phase, cursor, input, merged, lookups, last>>

\* one round of the loop of process_subtree: the iterator yields child i (and holds
\* its next sibling from then on), and the child is handled
ProcessSubtreeStep ==
    /\ At("process_subtree", "loop")
    /\ Top.i <= Len(TopElem.kids)
    /\ LET f == Top
           elem == TopElem.kids[f.i]
           here == Goto([f EXCEPT !.i = f.i + 1])
           child == Append(f.path, f.i)
       IN  calls' = IF ~IsElement(elem) THEN here
                    ELSE IF elem.tag = XI_INCLUDE
                    THEN Append(here, Frame("handle_xinclude", "start", f.d, child,
                                            f.base_url, f.xinclude_stack))
                    ELSE Append(here, Frame("process_subtree", "loop", f.d, child,
                                            f.base_url, f.xinclude_stack))
    /\ UNCHANGED <<trees, err, stderr, phase, cursor, input, merged, lookups, last>>

\* process_subtree: the iterator is exhausted
ProcessSubtreeReturn ==
    /\ At("process_subtree", "loop")
    /\ Top.i > Len(TopElem.kids)
    /\ calls' = Pop
    /\ UNCHANGED <<trees, err, stderr, phase, cursor, input, merged, lookups, last>>

----------------------------------------------------------------------------
(* get_target, handle_xifallback, handle_xinclude *)

\* urllib.request.urlopen(location).read(): the input document lies at its base_url
Resource(loc) ==
    IF input.base_url # None /\ loc = input.base_url THEN File(<<"<main>">>, input.tree)
    ELSE IF Len(loc) >= 2 /\ Front(loc) \in Dirs /\ Last(loc) \in DOMAIN Files
    THEN Files[Last(loc)]
    ELSE NoFile

\* the URL get_target builds and the content it reads: with a scheme in base_url it
\* opens base_url itself, else the file at url
get_target(elem, base_url) ==
    LET url == JoinUrl(base_url, Get(elem, <<"", "href">>))
    IN  [url |-> url,
         content |-> IF HasScheme(base_url) THEN Resource(base_url) ELSE Resource(url)]

\* handle_xinclude from its first line to the end of get_target: what is raised before
\* the target is read (error), the base URL, and what get_target returns
Load(f) ==
    LET tree == trees[f.d]
        elem == NodeAt(tree, f.path)
        invalid == validate_xinclude(elem)
        base_urls == NearestAttr(tree, f.path, XML_BASE)
        base_url == IF Len(base_urls) = 1 THEN base_urls[1] ELSE f.base_url
        error == IF Has(elem, <<"", "xpointer">>) THEN "AssertionError: xpointer not implemented"
                 ELSE IF invalid # "" THEN invalid
                 ELSE IF base_url = None THEN "DBXIException: Could not get base URL"
                 ELSE IF ~Has(elem, <<"", "href">>) THEN "DBXIException: Missing href attribute"
                 ELSE ""
        target == IF error = "" THEN get_target(elem, base_url)
                  ELSE [url |-> None, content |-> NoFile]
    IN  [error |-> error, base_url |-> base_url, url |-> target.url, content |-> target.content]

\* the index of the element of frame f among its parent's children, and its parent
Idx(f) == Last(f.path)
Parent(f) == NodeAt(trees[f.d], Front(f.path))

\* handle_xinclude raises before or in get_target, and no xi:fallback catches it
HandleXIncludeRaise ==
    /\ At("handle_xinclude", "start")
    /\ LET l == Load(Top) IN
       \/ /\ l.error # ""
          /\ Raise(l.error)
       \/ /\ l.error = ""
          /\ ~l.content.exists
          /\ ~HasFallback(TopElem)
          /\ Raise("ResourceError")

\* a fallback that is processed with no list at all
NoneStack(xinclude_stack) == NoStack

\* the call of process_tree on the xi:fallback: its xinclude_stack is the caller's
FallbackStack(xinclude_stack) == xinclude_stack

\* get_target raised ResourceError and handle_xifallback finds an xi:fallback: it gets
\* the xi:include's tail and is processed in place
HandleXIFallback ==
    /\ At("handle_xinclude", "start")
    /\ LET f == Top
           l == Load(f)
           elem == TopElem
       IN  /\ l.error = ""
           /\ ~l.content.exists
           /\ HasFallback(elem)
           /\ LET tail == AppendTo(elem.kids[1].tail, elem.tail) IN
              IF tail = TypeError THEN Raise("TypeError")
              ELSE /\ trees' = [trees EXCEPT ![f.d] =
                                   PutAt(@, f.path, [elem EXCEPT !.kids[1].tail = tail])]
                   /\ calls' = Append(Goto([f EXCEPT !.pc = "fallback", !.url = l.url]),
                                      Frame("process_tree", "start", f.d, Append(f.path, 1),
                                            None, FallbackStack(f.xinclude_stack)))
                   /\ UNCHANGED <<err, stderr, phase, cursor, input, merged, lookups, last>>

\* process_tree on the xi:fallback returned: the xi:fallback replaces the xi:include
\* (replace() leaves each of the two its own tail) and the error goes to sys.stderr
FallbackReturn ==
    /\ At("handle_xinclude", "fallback")
    /\ LET f == Top
           elem == TopElem
           after == PutAt(trees[f.d], f.path, elem.kids[1])
       IN  /\ trees' = [trees EXCEPT ![f.d] = after]
           /\ stderr' = Append(stderr, f.url)
           /\ calls' = Pop
           /\ last' = Event("fallback", elem, Parent(f), NodeAt(after, Front(f.path)),
                            Idx(f), f.url)
    /\ UNCHANGED <<err, phase, cursor, input, merged, lookups>>

\* the target was read and parse is not "xml": the text goes before the xi:include
IncludeText ==
    /\ At("handle_xinclude", "start")
    /\ LET f == Top
           l == Load(f)
           elem == TopElem
           parent == Parent(f)
           i == Idx(f)
       IN  /\ l.error = ""
           /\ l.content.exists
           /\ GetOr(elem, <<"", "parse">>, <<"xml">>) # <<"xml">>
           /\ LET saved_tail == elem.tail
                  text == PyConcat(l.content.bytes, saved_tail)
                  emptied == [parent EXCEPT !.kids[i].tail = <<>>]
                  after == IF i > 1
                           THEN [emptied EXCEPT !.kids[i - 1].tail = PyConcat(@, text)]
                           ELSE [emptied EXCEPT !.text = PyConcat(@, text)]
                  failed == IF i > 1 THEN after.kids[i - 1].tail = TypeError
                            ELSE after.text = TypeError
              IN  IF failed THEN Raise("TypeError")
                  ELSE /\ trees' = [trees EXCEPT ![f.d] = PutAt(@, Front(f.path), after)]
                       /\ calls' = Pop
                       /\ last' = Event("text", elem, parent, after, i, l.content.bytes)
                       /\ UNCHANGED <<err, stderr, phase, cursor, input, merged, lookups>>

\* the target was read and parse is "xml": the tail is saved
LoadXml ==
    /\ At("handle_xinclude", "start")
    /\ LET f == Top
           l == Load(f)
           elem == TopElem
       IN  /\ l.error = ""
           /\ l.content.exists
           /\ GetOr(elem, <<"", "parse">>, <<"xml">>) = <<"xml">>
           /\ trees' = [trees EXCEPT ![f.d] = PutAt(@, f.path, [elem EXCEPT !.tail = <<>>])]
           /\ calls' = Goto([f EXCEPT !.pc = "check", !.url = l.url, !.content = l.content,
                                      !.saved_tail = elem.tail])
    /\ UNCHANGED <<err, stderr, phase, cursor, input, merged, lookups, last>>

\* "Check for infinite recursion"
CheckRecursion ==
    /\ At("handle_xinclude", "check")
    /\ LET f == Top
           xinclude_stack == IF f.xinclude_stack.isNone THEN Stack(<<>>) ELSE f.xinclude_stack
           fragid == Get(TopElem, <<"", "fragid">>)
           xinclude_id == XIncludeId(f.url, fragid)
       IN  IF \E k \in 1..Len(xinclude_stack.ids) : xinclude_stack.ids[k] = xinclude_id
           THEN Raise("DBXIException: Infinite recursion detected")
           ELSE /\ calls' = Goto([f EXCEPT !.pc = "parse", !.xinclude_stack = xinclude_stack,
                                           !.xinclude_id = xinclude_id])
                /\ UNCHANGED <<trees, err, stderr, phase, cursor, input, merged, lookups, last>>

\* a callee that is handed the caller's list as it is
SameStack(xinclude_stack, xinclude_id) == xinclude_stack

\* the xinclude_stack of the call of process_tree on the fetched subtree
CalleeStack(xinclude_stack, xinclude_id) == Stack(Append(xinclude_stack.ids, xinclude_id))

\* "Parse as XML", "Get subdocument", copy_attributes, and the call of process_tree
ParseXml ==
    /\ At("handle_xinclude", "parse")
    /\ LET f == Top
           elem == TopElem
           fragid == Get(elem, <<"", "fragid">>)
           doc == f.content.xml
           hits == IF fragid = None THEN <<<<>>>> ELSE AllWithId(doc, fragid)
       IN  IF doc = NotXml THEN Raise("XMLSyntaxError")
           ELSE IF Len(hits) # 1 THEN Raise("DBXIException: Could not find fragid")
           ELSE LET subtree == NodeAt(doc, hits[1])
                    base_urls == NearestAttr(doc, hits[1], XML_BASE)
                    url == IF fragid # None /\ Len(base_urls) = 1 THEN base_urls[1] ELSE f.url
                    copied == copy_attributes(elem, subtree)
                IN  /\ trees' = Append(trees, [copied EXCEPT !.tail = f.saved_tail])
                    /\ calls' = Append(Goto([f EXCEPT !.pc = "replace", !.url = url]),
                                       Frame("process_tree", "start", f.d + 1, <<>>, url,
                                             CalleeStack(f.xinclude_stack, f.xinclude_id)))
                    /\ last' = Event("copy", elem, subtree, copied, Idx(f), url)
                    /\ UNCHANGED <<err, stderr, phase, cursor, input, merged, lookups>>

\* process_tree on the subtree returned: "Replace XInclude by subtree"
IncludeReturn ==
    /\ At("handle_xinclude", "replace")
    /\ LET f == Top
           subtree == trees[Len(trees)]
           after == PutAt(trees[f.d], f.path, subtree)
       IN  /\ trees' = [Front(trees) EXCEPT ![f.d] = after]
           /\ calls' = Pop
           /\ last' = Event("xml", TopElem, Parent(f), NodeAt(after, Front(f.path)),
                            Idx(f), f.url)
    /\ UNCHANGED <<err, stderr, phase, cursor, input, merged, lookups>>

\* xinclude.process_tree returned to docbook.process_tree
XIncludeDone ==
    /\ phase = "xinclude" /\ err = "" /\ calls = <<>>
    /\ phase' = "ids"
    /\ merged' = trees[1]
    /\ cursor' = 1
    /\ UNCHANGED <<trees, calls, err, stderr, input, lookups, last>>

----------------------------------------------------------------------------
(* docbook.py *)

\* utils.generate_id(elem): an identifier of the element's place in the document
generate_id(path) == <<ToString(path)>>

Step(tree, error) == [tree |-> tree, err |-> error]

RECURSIVE AssignIds(_, _, _, _)
\* the loop of associate_new_ids over subtree.iter(), paths being what is left of it
AssignIds(tree, paths, idfixup, suffix) ==
    IF paths = <<>> THEN Step(tree, "")
    ELSE LET elem == NodeAt(tree, Head(paths))
             cur_id == Get(elem, XML_ID)
             new == GetOr(elem, DBXI_NEWID, cur_id)
         IN  IF cur_id = None THEN AssignIds(tree, Tail(paths), idfixup, suffix)
             ELSE IF idfixup = <<"suffix">>
             THEN AssignIds(PutAt(tree, Head(paths), Set(elem, DBXI_NEWID, new \o suffix)),
                            Tail(paths), idfixup, suffix)
             ELSE IF idfixup = <<"auto">>
             THEN AssignIds(PutAt(tree, Head(paths),
                                  Set(elem, DBXI_NEWID, new \o <<"--">> \o generate_id(Head(paths)))),
                            Tail(paths), idfixup, suffix)
             ELSE Step(tree, "DBXIException: idfixup type not implemented")

\* associate_new_ids(subtree), subtree being the element at path p of tree
associate_new_ids(tree, p) ==
    LET subtree == NodeAt(tree, p)
        idfixup == GetOr(subtree, TRANS_IDFIXUP, <<"none">>)
        suffix == NearestAttr(tree, p, TRANS_SUFFIX)
    IN  IF idfixup = <<"none">> THEN Step(tree, "")
        ELSE IF idfixup = <<"suffix">> /\ Len(suffix) = 0 THEN Step(tree, "AssertionError: No suffix given")
        ELSE AssignIds(tree, Iter(tree, p), idfixup,
                       IF idfixup = <<"suffix">> THEN suffix[1] ELSE suffix)

Found(q) == [kind |-> "found", path |-> q]
NotFound == [kind |-> "None", path |-> <<>>]
Unbound == [kind |-> "UnboundLocalError", path |-> <<>>]

\* return None if len(target) == 0 else target[0]
FirstOf(target) == IF Len(target) = 0 THEN NotFound ELSE Found(target[1])

RECURSIVE NearLoop(_, _, _, _)
\* the while loop of find_target from elem (at path p) on, and the return after it;
\* ran tells whether the loop body has run, so that target is bound
NearLoop(tree, p, value, ran) ==
    IF p # <<>>
    THEN LET target == ChildrenWithId(tree, Front(p), value)
         IN  IF Len(target) > 0 THEN Found(target[1])
             ELSE NearLoop(tree, Front(p), value, TRUE)
    ELSE IF ran THEN NotFound ELSE Unbound

\* find_target(elem, subtree, value, linkscope): elem at path p, subtree the root
find_target(tree, p, value, linkscope) ==
    IF linkscope = <<"local">> THEN FirstOf(ChildrenWithId(tree, <<>>, value))
    ELSE IF linkscope = <<"near">> THEN NearLoop(tree, p, value, FALSE)
    ELSE IF linkscope = <<"global">> THEN FirstOf(AllWithId(tree, value))
    ELSE Unbound

idrefs == {"linkend", "otherterm", "startref", "targetptr", "endterm"}
idrefs_multi == {"arearefs", "linkends", "zone"}

\* the test that makes fixup_references pass an element by
SkipsElement(idfixup, linkscope) == idfixup = <<"none">> \/ "linkscope" = "user"

Fix(tree, error, calls_) == [tree |-> tree, err |-> error, lookups |-> calls_]

RECURSIVE FixAttrs(_, _, _, _, _)
\* the loop of fixup_references over elem.items(), items being what is left of it
FixAttrs(tree, p, items, linkscope, done) ==
    IF items = <<>> THEN Fix(tree, "", done)
    ELSE LET attr == Head(items).name
             value == Head(items).value
         IN  IF attr[1] # "" \/ attr[2] \notin (idrefs \cup idrefs_multi)
             THEN FixAttrs(tree, p, Tail(items), linkscope, done)
             ELSE IF attr[2] \in idrefs_multi THEN Fix(tree, "AssertionError: Not implemented", done)
             ELSE LET target == find_target(tree, p, value, linkscope)
                      seen == Append(done, [path |-> p, attr |-> attr[2], value |-> value,
                                            linkscope |-> linkscope, found |-> target])
                  IN  IF target.kind = "UnboundLocalError"
                      THEN Fix(tree, "UnboundLocalError", seen)
                      ELSE IF target.kind = "None"
                      THEN Fix(tree, "DBXIException: Could not resolve reference", seen)
                      ELSE LET t == NodeAt(tree, target.path)
                               newid == Get(t, DBXI_NEWID)
                               new == IF Truthy(newid) THEN newid ELSE Get(t, XML_ID)
                           IN  FixAttrs(PutAt(tree, p, Set(NodeAt(tree, p), attr, new)),
                                        p, Tail(items), linkscope, seen)

\* one round of the loop of fixup_references: the element at path p
fixup_element(tree, p) ==
    LET elem == NodeAt(tree, p)
        linkscopes == NearestAttr(tree, p, TRANS_LINKSCOPE)
        linkscope == IF Len(linkscopes) > 0 THEN linkscopes[1] ELSE <<"near">>
        idfixups == NearestAttr(tree, p, TRANS_IDFIXUP)
        idfixup == IF Len(idfixups) > 0 THEN idfixups[1] ELSE <<"none">>
    IN  IF ~IsElement(elem) \/ elem.tag[1] # "db" THEN Fix(tree, "", <<>>)
        ELSE IF linkscope \notin {<<"near">>, <<"local">>, <<"global">>, <<"user">>}
        THEN Fix(tree, "DBXIException: invalid linkscope type", <<>>)
        ELSE IF SkipsElement(idfixup, linkscope) THEN Fix(tree, "", <<>>)
        ELSE FixAttrs(tree, p, elem.attrib, linkscope, <<>>)

RECURSIVE DelTrans(_, _)
\* the loop of the cleanup over elem.items(), items being what is left of it
DelTrans(elem, items) ==
    IF items = <<>> THEN elem
    ELSE DelTrans(IF Head(items).name[1] = "trans" THEN Del(elem, Head(items).name) ELSE elem,
                  Tail(items))

\* one round of the third pass of process_tree
cleanup_element(elem) ==
    LET newid == Get(elem, DBXI_NEWID)
        renamed == IF Truthy(newid) THEN Del(Set(elem, XML_ID, newid), DBXI_NEWID) ELSE elem
    IN  DelTrans(renamed, renamed.attrib)

\* the elements tree.iter() yields in the three passes (the passes change no structure)
Elements == Iter(trees[1], <<>>)

\* the loop variable moves on; after the last element the next pass begins
Advance(next) ==
    IF cursor < Len(Elements) THEN cursor' = cursor + 1 /\ phase' = phase
    ELSE cursor' = 1 /\ phase' = next

\* "First, assign all elements a new ID": one round of the loop
AssociateNewIds ==
    /\ phase = "ids" /\ err = ""
    /\ LET r == associate_new_ids(trees[1], Elements[cursor])
       IN  IF r.err # "" THEN Raise(r.err)
           ELSE /\ trees' = [trees EXCEPT ![1] = r.tree]
                /\ Advance("refs")
                /\ UNCHANGED <<calls, err, stderr, input, merged, lookups, last>>

\* "Second, fixup all references": one round of the loop of fixup_references
FixupReferences ==
    /\ phase = "refs" /\ err = ""
    /\ LET r == fixup_element(trees[1], Elements[cursor])
       IN  /\ lookups' = lookups \o r.lookups
           /\ IF r.err # ""
              THEN /\ err' = r.err
                   /\ phase' = "failed"
                   /\ UNCHANGED <<trees, cursor>>
              ELSE /\ trees' = [trees EXCEPT ![1] = r.tree]
                   /\ Advance("cleanup")
                   /\ err' = err
    /\ UNCHANGED <<calls, stderr, input, merged, last>>

\* "Third, clean up": one round of the loop
Cleanup ==
    /\ phase = "cleanup" /\ err = ""
    /\ trees' = [trees EXCEPT ![1] =
                    PutAt(@, Elements[cursor], cleanup_element(NodeAt(@, Elements[cursor])))]
    /\ Advance("done")
    /\ UNCHANGED <<calls, err, stderr, input, merged, lookups, last>>

----------------------------------------------------------------------------
(* docbook.process_tree(tree, base_url, file) *)

Init ==
    \E in \in Inputs :
        /\ input = in
        /\ trees = <<in.tree>>
        /\ calls = <<Frame("process_tree", "start", 1, <<>>, in.base_url, NoStack)>>
        /\ err = ""
        /\ stderr = <<>>
        /\ phase = "xinclude"
        /\ cursor = 1
        /\ merged = in.tree
        /\ lookups = <<>>
        /\ last = NoEvent

Next ==
    \/ ProcessTree
    \/ ProcessSubtreeStep
    \/ ProcessSubtreeReturn
    \/ HandleXIncludeRaise
    \/ HandleXIFallback
    \/ FallbackReturn
    \/ IncludeText
    \/ LoadXml
    \/ CheckRecursion
    \/ ParseXml
    \/ IncludeReturn
    \/ ProcessTreeFlatten
    \/ XIncludeDone
    \/ AssociateNewIds
    \/ FixupReferences
    \/ Cleanup

Spec == Init /\ [][Next]_vars

----------------------------------------------------------------------------
(* The claims *)

\* the elements of tree t, by path
PathsOf(t) == {Iter(t, <<>>)[k] : k \in 1..Len(Iter(t, <<>>))}

\* the value of the nearest ancestor-or-self carrying the attribute, or default
Effective(t, p, name, default) ==
    IF NearestAttr(t, p, name) = <<>> THEN default ELSE NearestAttr(t, p, name)[1]

\* C1: after docbook.process_tree returned, no element carries an attribute of the
\* control namespace (trans:idfixup, trans:linkscope, trans:suffix) nor the marker
\* dbxi:newid, whatever the marker's value was and whether or not the input carried one.
C1_NoControlOrScratchAttribute ==
    phase = "done" =>
        \A p \in PathsOf(trees[1]) :
            LET elem == NodeAt(trees[1], p)
            IN  /\ ~Has(elem, DBXI_NEWID)
                /\ \A k \in 1..Len(elem.attrib) : elem.attrib[k].name[1] # "trans"

\* C5: after docbook.process_tree returned, an element that had xml:id = i has
\* xml:id = i followed once by its effective suffix when its effective idfixup is
\* "suffix", however many of its ancestors carry idfixup, and xml:id = i when its
\* effective idfixup is "none".  (Stated of the elements that carried no dbxi:newid
\* in the input, which is the case the claim is about.)
C5_SuffixOnceOrUnchanged ==
    phase = "done" =>
        \A p \in PathsOf(merged) :
            LET i == Get(NodeAt(merged, p), XML_ID)
                idfixup == Effective(merged, p, TRANS_IDFIXUP, <<"none">>)
                suffix == Effective(merged, p, TRANS_SUFFIX, None)
                final == Get(NodeAt(trees[1], p), XML_ID)
            IN  i # None /\ ~Has(NodeAt(merged, p), DBXI_NEWID) =>
                    /\ idfixup = <<"suffix">> => final = i \o suffix
                    /\ idfixup = <<"none">> => final = i

\* the exceptions of the reference pass
RefErrors == {"UnboundLocalError", "DBXIException: Could not resolve reference",
              "DBXIException: invalid linkscope type", "AssertionError: Not implemented"}

\* the reference pass has begun: merged and trees[1] have the same elements
InRefs == phase \in {"refs", "cleanup", "done"} \/ (phase = "failed" /\ err \in RefErrors)

\* the proper ancestors of the element at p that have a child with xml:id = value
AncestorsWithChild(t, p, value) ==
    {q \in {SubSeq(p, 1, n) : n \in 0..(Len(p) - 1)} : ChildrenWithId(t, q, value) # <<>>}

\* the first child with xml:id = value of the element at q
FirstChildWithId(t, q, value) ==
    Append(q, CHOOSE k \in 1..Len(NodeAt(t, q).kids) :
                  /\ Get(NodeAt(t, q).kids[k], XML_ID) = value
                  /\ \A j \in 1..(k - 1) : Get(NodeAt(t, q).kids[j], XML_ID) # value)

\* C6: under linkscope "near" find_target returns the first matching direct child of
\* the lowest ancestor of the referrer that has one, and None when no ancestor up to
\* the root has one, also when the referrer is the root; under "local" it returns the
\* first matching direct child of the root of the tree passed to the fixup pass, or None.
C6_FindTargetNearAndLocal ==
    InRefs =>
    \A k \in 1..Len(lookups) :
        LET l == lookups[k]
            above == AncestorsWithChild(merged, l.path, l.value)
            lowest == CHOOSE q \in above : \A r \in above : Len(r) <= Len(q)
        IN  /\ l.linkscope = <<"near">> =>
                   l.found = IF above = {} THEN NotFound
                             ELSE Found(FirstChildWithId(merged, lowest, l.value))
            /\ l.linkscope = <<"local">> =>
                   l.found = IF ChildrenWithId(merged, <<>>, l.value) = <<>> THEN NotFound
                             ELSE Found(FirstChildWithId(merged, <<>>, l.value))

RefAttrs(elem) == SelectSeq(elem.attrib, LAMBDA a : a.name[1] = "" /\ a.name[2] \in idrefs)

\* C7: the reference pass skips every DocBook element whose effective idfixup is
\* "none" or whose effective linkscope is "user": its reference attributes keep their
\* values, find_target is not called for it, and it raises nothing.
C7_NoneAndUserAreSkipped ==
    InRefs =>
    \A p \in PathsOf(merged) :
        LET elem == NodeAt(merged, p)
            idfixup == Effective(merged, p, TRANS_IDFIXUP, <<"none">>)
            linkscope == Effective(merged, p, TRANS_LINKSCOPE, <<"near">>)
        IN  /\ elem.tag[1] = "db"
            /\ linkscope \in {<<"near">>, <<"local">>, <<"global">>, <<"user">>}
            /\ (idfixup = <<"none">> \/ linkscope = <<"user">>)
            =>  /\ RefAttrs(NodeAt(trees[1], p)) = RefAttrs(elem)
                /\ \A k \in 1..Len(lookups) : lookups[k].path # p
                /\ ~(phase = "failed" /\ Elements[cursor] = p)

\* C8: for every single-valued reference attribute of a DocBook element that is not
\* skipped, the value is looked up among the original xml:id values, and either the
\* target is found and the attribute becomes the target's planned new id, or its
\* original id when it has none, which is the target's xml:id in the output; or no
\* target is found and processing aborts with the reference-resolution error.
C8_ReferencesFollowTheirTargets ==
    InRefs =>
    \A k \in 1..Len(lookups) :
        LET l == lookups[k]
            target == NodeAt(trees[1], l.found.path)
            attr == Get(NodeAt(trees[1], l.path), <<"", l.attr>>)
        IN  l.linkscope # <<"user">> =>
                \/ /\ l.found.kind = "found"
                   /\ Get(NodeAt(merged, l.found.path), XML_ID) = l.value
                   /\ phase = "refs" /\ Elements[cursor] # l.path =>
                          attr = IF Truthy(Get(target, DBXI_NEWID)) THEN Get(target, DBXI_NEWID)
                                 ELSE Get(target, XML_ID)
                   /\ phase = "done" => attr = Get(target, XML_ID)
                \/ /\ l.found.kind # "found"
                   /\ err = "DBXIException: Could not resolve reference"

\* handle_xinclude stands at its start on an xi:include whose target cannot be read
FetchFails(f) ==
    f.fn = "handle_xinclude" /\ f.pc = "start" /\ Load(f).error = "" /\ ~Load(f).content.exists

\* s with None read as the empty string
Str(s) == IF s = None THEN <<>> ELSE s

\* C3: when the fetch of an xi:include fails with a resource error and it has an
\* xi:fallback child, the fallback's content is resolved and takes the xi:include's
\* place with the xi:include's trailing text after it, the error is written once to
\* sys.stderr, and the handler raises nothing; without an xi:fallback child the
\* resource error propagates.
C3_FallbackOnResourceError ==
    /\ last.op = "fallback" =>
           LET fallback == last.after.kids[last.idx]
           IN  /\ fallback.tag = XI_FALLBACK
               /\ fallback.text = last.elem.kids[1].text
               /\ fallback.kids = last.elem.kids[1].kids
               /\ Len(last.after.kids) = Len(last.before.kids)
               /\ \A k \in 1..Len(last.after.kids) :
                      k # last.idx => last.after.kids[k] = last.before.kids[k]
               /\ \E head \in {SubSeq(Str(fallback.tail), 1, n) : n \in 0..Len(Str(fallback.tail))} :
                      Str(fallback.tail) = head \o Str(last.elem.tail)
               /\ stderr = Append(SubSeq(stderr, 1, last.writes), last.data)
    /\ Len(calls) > 0 /\ FetchFails(Top) =>
           IF HasFallback(TopElem) THEN err = "" ELSE err \in {"", "ResourceError"}
    /\ err = "ResourceError" => Len(calls) > 0 /\ FetchFails(Top) /\ ~HasFallback(TopElem)
    /\ \A k \in 1..Len(calls) :
           calls[k].fn = "handle_xinclude" /\ calls[k].pc = "fallback" =>
               HasFallback(NodeAt(trees[calls[k].d], calls[k].path))

\* C4: a fetched xi:include with parse="text" puts the text and then its own trailing
\* text at the end of the preceding sibling's tail, or of the parent's text when it is
\* the first child; it is removed, so the parent has one child fewer and the children
\* around it are the same; nothing is raised.
C4_TextInclusion ==
    /\ last.op = "text" =>
           LET i == last.idx
               text == last.data \o Str(last.elem.tail)
           IN  /\ IF i > 1
                  THEN last.after.kids[i - 1].tail = Str(last.before.kids[i - 1].tail) \o text
                  ELSE last.after.text = Str(last.before.text) \o text
               /\ Len(last.after.kids) = Len(last.before.kids) - 1
               /\ \A k \in 1..Len(last.after.kids) : last.after.kids[k].tag # XI_INCLUDE
    /\ phase = "failed" /\ Len(calls) > 0 /\ Top.fn = "handle_xinclude" /\ Top.pc = "start"
       /\ Load(Top).error = "" /\ Load(Top).content.exists
       /\ GetOr(TopElem, <<"", "parse">>, <<"xml">>) = <<"text">>
       => err # "TypeError"

RECURSIVE KeysBelow(_)
\* the xinclude_ids of the xml inclusions in progress around frame k, outermost first:
\* those of the calls of handle_xinclude below it that wait for process_tree
KeysBelow(k) ==
    IF k <= 1 THEN <<>>
    ELSE LET f == calls[k - 1]
         IN  IF f.fn = "handle_xinclude" /\ f.pc = "replace"
             THEN Append(KeysBelow(k - 1), f.xinclude_id)
             ELSE KeysBelow(k - 1)

InSeq(x, seq) == \E k \in 1..Len(seq) : seq[k] = x

\* the key of the xi:include that frame k of handle_xinclude has fetched
KeyOf(k) ==
    XIncludeId(calls[k].url, Get(NodeAt(trees[calls[k].d], calls[k].path), <<"", "fragid">>))

RecursionError == "DBXIException: Infinite recursion detected"

\* C2: an xml inclusion whose (location, fragid) key is already in progress on the
\* inclusion path is never parsed nor recursed into: the check comes while nothing of
\* the fetched content is parsed, it ends in the recursion error, and after that error
\* the run has stopped inside the inclusions with no tree returned.
C2_RecursionIsFatal ==
    /\ \A k \in 1..Len(calls) :
           calls[k].fn = "handle_xinclude" /\ calls[k].pc \in {"parse", "replace"} =>
               ~InSeq(calls[k].xinclude_id, KeysBelow(k))
    /\ \A k \in 1..Len(calls) :
           calls[k].fn = "handle_xinclude" /\ calls[k].pc \in {"start", "check", "parse"} =>
               k = Len(calls) /\ Len(trees) = calls[k].d
    /\ Len(calls) > 0 /\ Top.fn = "handle_xinclude" /\ Top.pc = "check"
       /\ InSeq(KeyOf(Len(calls)), KeysBelow(Len(calls))) /\ phase # "xinclude"
       => err = RecursionError
    /\ err = RecursionError =>
           /\ phase = "failed"
           /\ merged = input.tree
           /\ Len(calls) > 0 /\ Top.fn = "handle_xinclude" /\ Top.pc = "check"
           /\ InSeq(KeyOf(Len(calls)), KeysBelow(Len(calls)))

\* the recursion error, reached through a chain of two inclusions in progress
C2_Witness ==
    /\ err = RecursionError
    /\ Len(KeysBelow(Len(calls))) >= 2

\* C9: the xinclude_stack of every call in work holds exactly the keys of the xml
\* inclusions in progress around it, outermost first, whether it was reached through
\* included documents or through xi:fallback content; so nothing of a finished
\* inclusion is in it, no caller's list changes while its callees run, and the
\* recursion error only comes for a key of an enclosing inclusion.
C9_GuardIsTheEnclosingInclusions ==
    /\ \A k \in 1..Len(calls) : calls[k].xinclude_stack.ids = KeysBelow(k)
    /\ err = RecursionError => InSeq(KeyOf(Len(calls)), KeysBelow(Len(calls)))

\* inside an inclusion, a second xi:include of a key that a finished sibling had
\* passes the check
C9_Witness ==
    /\ phase = "xinclude" /\ Len(calls) > 0
    /\ Top.fn = "handle_xinclude" /\ Top.pc = "parse"
    /\ KeysBelow(Len(calls)) # <<>>
    /\ last.op = "xml"
    /\ XIncludeId(last.data, Get(last.elem, <<"", "fragid">>)) = Top.xinclude_id

\* the name under which copy_attributes puts an attribute of the xi:include on the
\* root: xml:id for set-xml-id, the local name alone for the local namespace, the
\* name itself for the other namespaces but xml
CopiedAs(name) ==
    IF name = <<"", "set-xml-id">> THEN XML_ID
    ELSE IF name[1] = "local" THEN <<"", name[2]>>
    ELSE name

IsCopied(name) == name = <<"", "set-xml-id">> \/ name[1] \notin {"", "xml"}

\* the names that the copy of the attributes of elem writes or removes
CopyTargets(elem, as(_)) ==
    {as(elem.attrib[k].name) : k \in {j \in 1..Len(elem.attrib) : IsCopied(elem.attrib[j].name)}}

\* root carries what the attributes of elem ask for, under the names as(_);
\* removes: whether an empty set-xml-id removes any xml:id, or only one that is not empty
Carries(elem, root, as(_), removesEmpty) ==
    \A k \in 1..Len(elem.attrib) :
        LET name == elem.attrib[k].name
            value == elem.attrib[k].value
        IN  IsCopied(name) =>
                IF name = <<"", "set-xml-id">> /\ ~Truthy(value)
                THEN IF removesEmpty THEN ~Has(root, XML_ID) ELSE ~Truthy(Get(root, XML_ID))
                ELSE Get(root, as(name)) = value

\* nothing else of the root changed
OthersKept(elem, before, after, as(_)) ==
    /\ after.tag = before.tag /\ after.text = before.text /\ after.kids = before.kids
    /\ \A k \in 1..Len(after.attrib) :
           LET name == after.attrib[k].name
           IN  name \notin CopyTargets(elem, as) =>
                   Has(before, name) /\ Get(before, name) = after.attrib[k].value
    /\ \A k \in 1..Len(before.attrib) :
           LET name == before.attrib[k].name
           IN  name \notin CopyTargets(elem, as) => Has(after, name)

Same(name) == IF name = <<"", "set-xml-id">> THEN XML_ID ELSE name

RECURSIVE Content(_)
\* what is inside an element, in document order, with the tags of the xi:fallback
\* elements left out: its text, then each child (the start of the element with its
\* attributes, what is inside it, its end) and the child's tail
Content(n) ==
    LET Piece(kid) ==
            IF IsElement(kid) /\ kid.tag = XI_FALLBACK
            THEN Content(kid) \o Str(kid.tail)
            ELSE <<ToString(<<"start", kid.tag, kid.attrib>>)>> \o Content(kid)
                 \o <<ToString(<<"end", kid.tag>>)>> \o Str(kid.tail)
    IN  Str(n.text) \o Flat([k \in 1..Len(n.kids) |-> Piece(n.kids[k])])

\* the xi:fallback elements below the root of t
FallbacksBelow(t) ==
    {p \in PathsOf(t) : p # <<>> /\ NodeAt(t, p).tag = XI_FALLBACK}

\* C11: flatten_subtree(tree) returns for every tree, and then no xi:fallback is left
\* below the root at any depth and each one was inlined: in document order the
\* elements, their attributes and all text are what they were, only the tags of the
\* xi:fallback elements are gone (so the children stand where the xi:fallback stood,
\* its text goes before them and its tail after them).
C11_FlattenInlinesEveryFallback ==
    /\ phase = "xinclude" /\ Len(calls) > 0 /\ Top.fn = "process_tree" /\ Top.pc = "flatten" =>
           LET r == flatten_subtree(TopElem)
           IN  /\ r.err = ""
               /\ FallbacksBelow(r.tree) = {}
               /\ Content(r.tree) = Content(TopElem)
               /\ r.tree.tag = TopElem.tag /\ r.tree.attrib = TopElem.attrib
    /\ Len(calls) > 0 /\ Top.fn = "process_tree" /\ Top.pc = "flatten" => phase # "failed"
    /\ phase \notin {"xinclude", "failed"} => FallbacksBelow(merged) = {}

====
